---- MODULE Spec2Model ----
(***************************************************************************)
(* SimpleVector<Type> over ArrayPtr<Type> (src/simple-vector).             *)
(*                                                                         *)
(* Vector objects "a" and "b" live over one heap of array blocks.  A step  *)
(* is one call of a constructor, the destructor or a member function on    *)
(* one of them, or the caller taking the result of the call that has just  *)
(* returned.  Element values are small integers (Type = int, Type() = 0).  *)
(* `new Type[n]` leaves the n slots uninitialised and a read past the end  *)
(* of a block yields an arbitrary value: both are a free choice over       *)
(* Values.  `new Type[n]` with n > 0 may also throw std::bad_alloc, which  *)
(* the allocation BadAlloc stands for.                                     *)
(*                                                                         *)
(* Spec is a program with the one object "a", in which every call is       *)
(* recorded in ret; SpecPair is a program with both objects, in which only *)
(* the calls that involve two objects are recorded; SpecCompare starts     *)
(* from any two small vectors and calls the six comparison operators.      *)
(*                                                                         *)
(* PushBack(const Type&) and Insert(ConstIterator, const Type&) use data_  *)
(* as if it were a raw Type*; they are modelled as they read.              *)
(***************************************************************************)
EXTENDS Integers, Sequences, FiniteSets

\* ---- bounds of the exploration ----
MaxCap == 4          \* no call is made that leaves a vector with capacity_ > MaxCap
MaxTotal == 3        \* ... or two vectors that both hold a block with more than
                     \* MaxTotal slots between them
MaxVal == 1          \* element values are 0..MaxVal
MaxCmp == 2          \* the vectors compared have capacity_ <= MaxCmp

Values == 0..MaxVal
DefaultValue == 0    \* Type()
Null == 0            \* nullptr
Vecs == {"a", "b"}
Addrs == 1..(Cardinality(Vecs) + 1)   \* one block per vector and one temporary

VARIABLES
    vec,     \* vec[x]: [alive, size_, capacity_, data_] of object x
    heap,    \* heap[p]: [live, cells] of the block at address p
    ret,     \* the call that has just returned: what was called on which object and
             \* what it returned; Idle once the caller has taken the result
    pushes,  \* pushes[x]: PushBack calls made on x since it was default-constructed,
             \*            NoTrack once anything else was called on it
    resized  \* resized[x]: the size x had before the last call, if that was a
             \*             Resize on x; NoTrack otherwise

vars == <<vec, heap, ret, pushes, resized>>

NoTrack == 0 - 1

Other(x) == CHOOSE y \in Vecs : y # x

\* ---- the heap: new Type[n], delete[], element reads and writes ----

FreeBlock == [live |-> FALSE, cells |-> <<>>]

\* the address operator new returns
NewAddr(h) == CHOOSE p \in Addrs : ~h[p].live /\ \A q \in Addrs : q < p => h[q].live

\* the contents an uninitialised array of n slots may have
Uninit(n) == [0..(n - 1) -> Values]

\* what stands for the contents when new Type[n] throws std::bad_alloc
BadAlloc == [i \in {0 - 1} |-> DefaultValue]

\* new Type[n] with the contents g
NewArray(h, n, g) == [h EXCEPT ![NewAddr(h)] = [live |-> TRUE, cells |-> g]]

\* delete[] p
DeleteArray(h, p) == IF p = Null THEN h ELSE [h EXCEPT ![p] = FreeBlock]

\* number of slots of the block p points to
Slots(h, p) == IF p = Null \/ ~h[p].live THEN 0 ELSE Cardinality(DOMAIN h[p].cells)

InBlock(h, p, i) == p # Null /\ h[p].live /\ i \in DOMAIN h[p].cells

\* p[i] as an rvalue; outside the block the value read is junk[i]
Load(h, p, i, junk) == IF InBlock(h, p, i) THEN h[p].cells[i] ELSE junk[i]

\* p[i] = v
Store(h, p, i, v) == IF InBlock(h, p, i) THEN [h EXCEPT ![p].cells[i] = v] ELSE h

\* std::copy / std::move(sp + first, sp + last, dp + dfirst): ascending, one element at a time
RECURSIVE StdMove(_, _, _, _, _, _, _)
StdMove(h, sp, first, last, dp, dfirst, junk) ==
    IF first >= last THEN h
    ELSE StdMove(Store(h, dp, dfirst, Load(h, sp, first, junk)),
                 sp, first + 1, last, dp, dfirst + 1, junk)

\* std::copy_backward / std::move_backward(sp + first, sp + last, dp + dlast): descending
RECURSIVE StdMoveBackward(_, _, _, _, _, _, _)
StdMoveBackward(h, sp, first, last, dp, dlast, junk) ==
    IF first >= last THEN h
    ELSE StdMoveBackward(Store(h, dp, dlast - 1, Load(h, sp, last - 1, junk)),
                         sp, first, last - 1, dp, dlast - 1, junk)

\* std::fill_n(p, n, v) and the loops  for (i = first; i < last; ++i) p[i] = v
RECURSIVE FillRange(_, _, _, _, _)
FillRange(h, p, first, last, v) ==
    IF first >= last THEN h
    ELSE FillRange(Store(h, p, first, v), p, first + 1, last, v)

NoJunk == [i \in {} |-> DefaultValue]

\* ---- one call's outcome ----

Dead == [alive |-> FALSE, size_ |-> 0, capacity_ |-> 0, data_ |-> Null]
Empty == [alive |-> TRUE, size_ |-> 0, capacity_ |-> 0, data_ |-> Null]

\* what a call reports: the operation, the object, how it ended, whether it
\* allocated a new block for the object, and the returned position (addr, off)
\* or element (val; off is then the index asked for).  size0 and back are set
\* by Resize alone: the size before the call, and whether the call took the
\* object back to the size it had before an immediately preceding Resize.
Ret(op, x, status, grew, addr, off, val) ==
    [op |-> op, vec |-> x, status |-> status, grew |-> grew,
     addr |-> addr, off |-> off, val |-> val, size0 |-> 0, back |-> FALSE]

RetVoid(op, x, grew) == Ret(op, x, "ok", grew, Null, 0, DefaultValue)
RetThrow(op, x) == Ret(op, x, "OutOfRange", FALSE, Null, 0, DefaultValue)
RetBadAlloc(op, x) == Ret(op, x, "BadAlloc", FALSE, Null, 0, DefaultValue)

Outcome(vs, h, r) == [vec |-> vs, heap |-> h, ret |-> r]

\* ---- ArrayPtr ----

\* ArrayPtr(size_t size): the block it allocates, with the contents g, or the
\* exception of new Type[size]
ArrayPtrNew(h, size, g) ==
    IF size = 0 THEN [heap |-> h, raw_ptr_ |-> Null, thrown |-> FALSE]
    ELSE IF g = BadAlloc THEN [heap |-> h, raw_ptr_ |-> Null, thrown |-> TRUE]
    ELSE [heap |-> NewArray(h, size, g), raw_ptr_ |-> NewAddr(h), thrown |-> FALSE]

\* ~ArrayPtr()
ArrayPtrDtor(h, raw_ptr_) == DeleteArray(h, raw_ptr_)

\* a move assignment that overwrites raw_ptr_ without deleting the old array
ArrayPtrMoveAssignLeaks(h, raw_ptr_, other_raw_ptr_) == h

\* operator=(ArrayPtr&& other) on two distinct objects: the heap afterwards
\* (this then holds other's pointer and other holds nullptr)
ArrayPtrMoveAssign(h, raw_ptr_, other_raw_ptr_) == DeleteArray(h, raw_ptr_)

\* ---- SimpleVector::PushBack ----

\* a growth policy of one more slot per growth
GrowByOne(c) == c + 1

GrowCapacity(c) == IF c = 0 THEN 1 ELSE c * 2

\* PushBack(const Type& item)
PushBackCopyFn(vs, h, x, item, g) ==
    LET v == vs[x] IN
    IF v.size_ = v.capacity_
    THEN LET new_capacity == GrowCapacity(v.capacity_)
             new_data == NewAddr(h)
             h1 == NewArray(h, new_capacity, g)
             h2 == StdMove(h1, v.data_, 0, v.size_, new_data, 0, NoJunk)
             h3 == DeleteArray(h2, v.data_)
             h4 == Store(h3, new_data, v.size_, item)
         IN IF g = BadAlloc THEN Outcome(vs, h, RetBadAlloc("PushBackCopy", x))
            ELSE Outcome([vs EXCEPT ![x] = [v EXCEPT !.data_ = new_data,
                                                !.capacity_ = new_capacity,
                                                !.size_ = v.size_ + 1]],
                    h4, RetVoid("PushBackCopy", x, TRUE))
    ELSE Outcome([vs EXCEPT ![x].size_ = v.size_ + 1],
                 Store(h, v.data_, v.size_, item),
                 RetVoid("PushBackCopy", x, FALSE))

\* a PushBack(Type&&) that relocates one element too few
PushBackMoveShort(vs, h, x, item, g, junk) ==
    LET v == vs[x] IN
    IF v.size_ = v.capacity_
    THEN LET new_capacity == GrowCapacity(v.capacity_)
             a == ArrayPtrNew(h, new_capacity, g)
             h2 == StdMove(a.heap, v.data_, 0, v.size_ - 1, a.raw_ptr_, 0, junk)
             h3 == ArrayPtrMoveAssign(h2, v.data_, a.raw_ptr_)
             h4 == Store(h3, a.raw_ptr_, v.size_, item)
         IN IF a.thrown THEN Outcome(vs, h, RetBadAlloc("PushBackMove", x))
            ELSE Outcome([vs EXCEPT ![x] = [v EXCEPT !.data_ = a.raw_ptr_,
                                                !.capacity_ = new_capacity,
                                                !.size_ = v.size_ + 1]],
                    h4, RetVoid("PushBackMove", x, TRUE))
    ELSE Outcome([vs EXCEPT ![x].size_ = v.size_ + 1],
                 Store(h, v.data_, v.size_, item),
                 RetVoid("PushBackMove", x, FALSE))

\* PushBack(Type&& item): the relocation reads [begin(), end() + size_), that is
\* 2 * size_ elements of a block of size_ slots; junk stands for what lies past it
PushBackMoveFn(vs, h, x, item, g, junk) ==
    LET v == vs[x] IN
    IF v.size_ = v.capacity_
    THEN LET new_capacity == GrowCapacity(v.capacity_)
             a == ArrayPtrNew(h, new_capacity, g)
             h2 == StdMove(a.heap, v.data_, 0, v.size_ + v.size_, a.raw_ptr_, 0, junk)
             h3 == ArrayPtrMoveAssign(h2, v.data_, a.raw_ptr_)
             h4 == Store(h3, a.raw_ptr_, v.size_, item)
         IN IF a.thrown THEN Outcome(vs, h, RetBadAlloc("PushBackMove", x))
            ELSE Outcome([vs EXCEPT ![x] = [v EXCEPT !.data_ = a.raw_ptr_,
                                                !.capacity_ = new_capacity,
                                                !.size_ = v.size_ + 1]],
                    h4, RetVoid("PushBackMove", x, TRUE))
    ELSE Outcome([vs EXCEPT ![x].size_ = v.size_ + 1],
                 Store(h, v.data_, v.size_, item),
                 RetVoid("PushBackMove", x, FALSE))

\* ---- SimpleVector: access ----

\* operator[](index), called with index < size_
IndexFn(vs, h, x, index) ==
    Outcome(vs, h, Ret("Index", x, "ok", FALSE, Null, 0,
                       Load(h, vs[x].data_, index, NoJunk)))

\* operator[](index) = value, called with index < size_
IndexAssignFn(vs, h, x, index, value) ==
    Outcome(vs, Store(h, vs[x].data_, index, value), RetVoid("IndexAssign", x, FALSE))

\* an At that checks the index against capacity_
AtChecksCapacity(vs, h, x, index) ==
    IF index >= vs[x].capacity_
    THEN Outcome(vs, h, Ret("At", x, "OutOfRange", FALSE, Null, index, DefaultValue))
    ELSE Outcome(vs, h, Ret("At", x, "ok", FALSE, Null, index,
                            Load(h, vs[x].data_, index, NoJunk)))

\* At(index)
AtFn(vs, h, x, index) ==
    IF index >= vs[x].size_
    THEN Outcome(vs, h, Ret("At", x, "OutOfRange", FALSE, Null, index, DefaultValue))
    ELSE Outcome(vs, h, Ret("At", x, "ok", FALSE, Null, index,
                            Load(h, vs[x].data_, index, NoJunk)))

\* ---- SimpleVector: Resize, Clear, Reserve ----

\* a Resize that shrinks by setting size_ alone, without resetting the slots
ResizeNoReset(vs, h, x, new_size, g) ==
    LET v == vs[x] IN
    IF new_size = v.size_ THEN Outcome(vs, h, RetVoid("Resize", x, FALSE))
    ELSE IF new_size > v.capacity_
    THEN LET new_capacity == new_size
             a == ArrayPtrNew(h, new_capacity, g)
             h2 == StdMove(a.heap, v.data_, 0, v.size_, a.raw_ptr_, 0, NoJunk)
             h3 == FillRange(h2, a.raw_ptr_, v.size_, new_size, DefaultValue)
             h4 == ArrayPtrMoveAssign(h3, v.data_, a.raw_ptr_)
         IN IF a.thrown THEN Outcome(vs, h, RetBadAlloc("Resize", x))
            ELSE Outcome([vs EXCEPT ![x] = [v EXCEPT !.data_ = a.raw_ptr_,
                                                !.capacity_ = new_capacity,
                                                !.size_ = new_size]],
                    h4, RetVoid("Resize", x, TRUE))
    ELSE Outcome([vs EXCEPT ![x].size_ = new_size], h, RetVoid("Resize", x, FALSE))

\* a Resize that grows by the doubling policy when that is enough
ResizeDoubling(vs, h, x, new_size, g) ==
    LET v == vs[x] IN
    IF new_size = v.size_ THEN Outcome(vs, h, RetVoid("Resize", x, FALSE))
    ELSE IF new_size > v.capacity_
    THEN LET new_capacity == IF v.capacity_ * 2 > new_size THEN v.capacity_ * 2
                             ELSE new_size
             g2 == [i \in 0..(new_capacity - 1) |-> DefaultValue]
             a == ArrayPtrNew(h, new_capacity, g2)
             h2 == StdMove(a.heap, v.data_, 0, v.size_, a.raw_ptr_, 0, NoJunk)
             h3 == FillRange(h2, a.raw_ptr_, v.size_, new_size, DefaultValue)
             h4 == ArrayPtrMoveAssign(h3, v.data_, a.raw_ptr_)
         IN Outcome([vs EXCEPT ![x] = [v EXCEPT !.data_ = a.raw_ptr_,
                                                !.capacity_ = new_capacity,
                                                !.size_ = new_size]],
                    h4, RetVoid("Resize", x, TRUE))
    ELSE Outcome([vs EXCEPT ![x].size_ = new_size],
                 FillRange(h, v.data_, new_size, v.size_, DefaultValue),
                 RetVoid("Resize", x, FALSE))

\* Resize(new_size)
ResizeFn(vs, h, x, new_size, g) ==
    LET v == vs[x] IN
    IF new_size = v.size_ THEN Outcome(vs, h, RetVoid("Resize", x, FALSE))
    ELSE IF new_size > v.capacity_
    THEN LET new_capacity == new_size
             a == ArrayPtrNew(h, new_capacity, g)
             h2 == StdMove(a.heap, v.data_, 0, v.size_, a.raw_ptr_, 0, NoJunk)
             h3 == FillRange(h2, a.raw_ptr_, v.size_, new_size, DefaultValue)
             h4 == ArrayPtrMoveAssign(h3, v.data_, a.raw_ptr_)
         IN IF a.thrown THEN Outcome(vs, h, RetBadAlloc("Resize", x))
            ELSE Outcome([vs EXCEPT ![x] = [v EXCEPT !.data_ = a.raw_ptr_,
                                                !.capacity_ = new_capacity,
                                                !.size_ = new_size]],
                    h4, RetVoid("Resize", x, TRUE))
    ELSE Outcome([vs EXCEPT ![x].size_ = new_size],
                 FillRange(h, v.data_, new_size, v.size_, DefaultValue),
                 RetVoid("Resize", x, FALSE))

\* a Clear that gives the block back
ClearReleases(vs, h, x) ==
    Outcome([vs EXCEPT ![x] = Empty], DeleteArray(h, vs[x].data_),
            RetVoid("Clear", x, FALSE))

\* Clear()
ClearFn(vs, h, x) ==
    Outcome([vs EXCEPT ![x].size_ = 0], h, RetVoid("Clear", x, FALSE))

\* a Reserve that makes the capacity new_capacity whenever the elements fit in it
ReserveShrinks(vs, h, x, new_capacity, g) ==
    LET v == vs[x] IN
    IF new_capacity # v.capacity_ /\ new_capacity >= v.size_
    THEN LET g2 == [i \in 0..(new_capacity - 1) |-> DefaultValue]
             a == ArrayPtrNew(h, new_capacity, g2)
             h2 == StdMove(a.heap, v.data_, 0, v.size_, a.raw_ptr_, 0, NoJunk)
             h3 == ArrayPtrMoveAssign(h2, v.data_, a.raw_ptr_)
         IN Outcome([vs EXCEPT ![x] = [v EXCEPT !.data_ = a.raw_ptr_,
                                                !.capacity_ = new_capacity]],
                    h3, RetVoid("Reserve", x, TRUE))
    ELSE Outcome(vs, h, RetVoid("Reserve", x, FALSE))

\* a Reserve that discards the old block before it allocates the new one
ReserveFreesFirst(vs, h, x, new_capacity, g) ==
    LET v == vs[x] IN
    IF new_capacity > v.capacity_
    THEN LET h1 == DeleteArray(h, v.data_)
             a == ArrayPtrNew(h1, new_capacity, g)
         IN IF a.thrown
            THEN Outcome([vs EXCEPT ![x].data_ = Null], h1, RetBadAlloc("Reserve", x))
            ELSE Outcome([vs EXCEPT ![x] = [v EXCEPT !.data_ = a.raw_ptr_,
                                                      !.capacity_ = new_capacity]],
                         a.heap, RetVoid("Reserve", x, TRUE))
    ELSE Outcome(vs, h, RetVoid("Reserve", x, FALSE))

\* Reserve(new_capacity)
ReserveFn(vs, h, x, new_capacity, g) ==
    LET v == vs[x] IN
    IF new_capacity > v.capacity_
    THEN LET a == ArrayPtrNew(h, new_capacity, g)
             h2 == StdMove(a.heap, v.data_, 0, v.size_, a.raw_ptr_, 0, NoJunk)
             h3 == ArrayPtrMoveAssign(h2, v.data_, a.raw_ptr_)
         IN IF a.thrown THEN Outcome(vs, h, RetBadAlloc("Reserve", x))
            ELSE Outcome([vs EXCEPT ![x] = [v EXCEPT !.data_ = a.raw_ptr_,
                                                !.capacity_ = new_capacity]],
                    h3, RetVoid("Reserve", x, TRUE))
    ELSE Outcome(vs, h, RetVoid("Reserve", x, FALSE))

\* ---- SimpleVector: Insert, PopBack, Erase ----
\* A position is its offset from begin(): pos = begin() + p.

\* Insert(ConstIterator pos, const Type& value)
InsertCopyFn(vs, h, x, p, value, g) ==
    LET v == vs[x] IN
    IF p < 0 \/ p > v.size_ THEN Outcome(vs, h, RetThrow("InsertCopy", x))
    ELSE LET insert_index == p IN
         IF v.size_ = v.capacity_
         THEN LET new_capacity == GrowCapacity(v.capacity_)
                  new_data == NewAddr(h)
                  h1 == NewArray(h, new_capacity, g)
                  h2 == StdMove(h1, v.data_, 0, insert_index, new_data, 0, NoJunk)
                  h3 == Store(h2, new_data, insert_index, value)
                  h4 == StdMove(h3, v.data_, insert_index, v.size_,
                                new_data, insert_index + 1, NoJunk)
                  h5 == DeleteArray(h4, v.data_)
              IN IF g = BadAlloc THEN Outcome(vs, h, RetBadAlloc("InsertCopy", x))
                 ELSE Outcome([vs EXCEPT ![x] = [v EXCEPT !.data_ = new_data,
                                                     !.capacity_ = new_capacity,
                                                     !.size_ = v.size_ + 1]],
                         h5, Ret("InsertCopy", x, "ok", TRUE, new_data,
                                 insert_index, DefaultValue))
         ELSE LET h1 == StdMoveBackward(h, v.data_, insert_index, v.size_,
                                        v.data_, v.size_ + 1, NoJunk)
                  h2 == Store(h1, v.data_, insert_index, value)
              IN Outcome([vs EXCEPT ![x].size_ = v.size_ + 1], h2,
                         Ret("InsertCopy", x, "ok", FALSE, v.data_,
                             insert_index, DefaultValue))

\* an Insert(Type&&) that shifts the suffix with std::move instead of std::move_backward
InsertMoveForwardShift(vs, h, x, p, value, g) ==
    LET v == vs[x] IN
    IF p < 0 \/ p > v.size_ THEN Outcome(vs, h, RetThrow("InsertMove", x))
    ELSE LET insert_index == p IN
         IF v.size_ = v.capacity_
         THEN LET new_capacity == GrowCapacity(v.capacity_)
                  a == ArrayPtrNew(h, new_capacity, g)
                  h2 == StdMove(a.heap, v.data_, 0, insert_index, a.raw_ptr_, 0, NoJunk)
                  h3 == Store(h2, a.raw_ptr_, insert_index, value)
                  h4 == StdMove(h3, v.data_, insert_index, v.size_,
                                a.raw_ptr_, insert_index + 1, NoJunk)
                  h5 == ArrayPtrMoveAssign(h4, v.data_, a.raw_ptr_)
              IN IF a.thrown THEN Outcome(vs, h, RetBadAlloc("InsertMove", x))
                 ELSE Outcome([vs EXCEPT ![x] = [v EXCEPT !.data_ = a.raw_ptr_,
                                                     !.capacity_ = new_capacity,
                                                     !.size_ = v.size_ + 1]],
                         h5, Ret("InsertMove", x, "ok", TRUE, a.raw_ptr_,
                                 insert_index, DefaultValue))
         ELSE LET h1 == StdMove(h, v.data_, insert_index, v.size_,
                                v.data_, insert_index + 1, NoJunk)
                  h2 == Store(h1, v.data_, insert_index, value)
              IN Outcome([vs EXCEPT ![x].size_ = v.size_ + 1], h2,
                         Ret("InsertMove", x, "ok", FALSE, v.data_,
                             insert_index, DefaultValue))

\* an Insert(Type&&) that grows to size_ + 1 slots instead of doubling
InsertMoveExactGrowth(vs, h, x, p, value, g) ==
    LET v == vs[x] IN
    IF p < 0 \/ p > v.size_ THEN Outcome(vs, h, RetThrow("InsertMove", x))
    ELSE LET insert_index == p IN
         IF v.size_ = v.capacity_
         THEN LET new_capacity == v.size_ + 1
                  a == ArrayPtrNew(h, new_capacity, g)
                  h2 == StdMove(a.heap, v.data_, 0, insert_index, a.raw_ptr_, 0, NoJunk)
                  h3 == Store(h2, a.raw_ptr_, insert_index, value)
                  h4 == StdMove(h3, v.data_, insert_index, v.size_,
                                a.raw_ptr_, insert_index + 1, NoJunk)
                  h5 == ArrayPtrMoveAssign(h4, v.data_, a.raw_ptr_)
              IN IF a.thrown THEN Outcome(vs, h, RetBadAlloc("InsertMove", x))
                 ELSE Outcome([vs EXCEPT ![x] = [v EXCEPT !.data_ = a.raw_ptr_,
                                                     !.capacity_ = new_capacity,
                                                     !.size_ = v.size_ + 1]],
                         h5, Ret("InsertMove", x, "ok", TRUE, a.raw_ptr_,
                                 insert_index, DefaultValue))
         ELSE LET h1 == StdMoveBackward(h, v.data_, insert_index, v.size_,
                                        v.data_, v.size_ + 1, NoJunk)
                  h2 == Store(h1, v.data_, insert_index, value)
              IN Outcome([vs EXCEPT ![x].size_ = v.size_ + 1], h2,
                         Ret("InsertMove", x, "ok", FALSE, v.data_,
                             insert_index, DefaultValue))

\* Insert(ConstIterator pos, Type&& value)
InsertMoveFn(vs, h, x, p, value, g) ==
    LET v == vs[x] IN
    IF p < 0 \/ p > v.size_ THEN Outcome(vs, h, RetThrow("InsertMove", x))
    ELSE LET insert_index == p IN
         IF v.size_ = v.capacity_
         THEN LET new_capacity == GrowCapacity(v.capacity_)
                  a == ArrayPtrNew(h, new_capacity, g)
                  h2 == StdMove(a.heap, v.data_, 0, insert_index, a.raw_ptr_, 0, NoJunk)
                  h3 == Store(h2, a.raw_ptr_, insert_index, value)
                  h4 == StdMove(h3, v.data_, insert_index, v.size_,
                                a.raw_ptr_, insert_index + 1, NoJunk)
                  h5 == ArrayPtrMoveAssign(h4, v.data_, a.raw_ptr_)
              IN IF a.thrown THEN Outcome(vs, h, RetBadAlloc("InsertMove", x))
                 ELSE Outcome([vs EXCEPT ![x] = [v EXCEPT !.data_ = a.raw_ptr_,
                                                     !.capacity_ = new_capacity,
                                                     !.size_ = v.size_ + 1]],
                         h5, Ret("InsertMove", x, "ok", TRUE, a.raw_ptr_,
                                 insert_index, DefaultValue))
         ELSE LET h1 == StdMoveBackward(h, v.data_, insert_index, v.size_,
                                        v.data_, v.size_ + 1, NoJunk)
                  h2 == Store(h1, v.data_, insert_index, value)
              IN Outcome([vs EXCEPT ![x].size_ = v.size_ + 1], h2,
                         Ret("InsertMove", x, "ok", FALSE, v.data_,
                             insert_index, DefaultValue))

\* PopBack(), called with size_ > 0
PopBackFn(vs, h, x) ==
    LET v == vs[x] IN
    Outcome([vs EXCEPT ![x].size_ = v.size_ - 1],
            Store(h, v.data_, v.size_ - 1, DefaultValue),
            RetVoid("PopBack", x, FALSE))

\* an Erase that leaves the vacated last slot as it was
EraseNoReset(vs, h, x, p) ==
    LET v == vs[x] IN
    IF v.size_ = 0 THEN Outcome(vs, h, RetThrow("Erase", x))
    ELSE IF p < 0 \/ p >= v.size_ THEN Outcome(vs, h, RetThrow("Erase", x))
    ELSE LET h1 == StdMove(h, v.data_, p + 1, v.size_, v.data_, p, NoJunk)
         IN Outcome([vs EXCEPT ![x].size_ = v.size_ - 1], h1,
                    Ret("Erase", x, "ok", FALSE, v.data_, p, DefaultValue))

\* an Erase whose range check lets end() through
EraseAcceptsEnd(vs, h, x, p) ==
    LET v == vs[x] IN
    IF v.size_ = 0 THEN Outcome(vs, h, RetThrow("Erase", x))
    ELSE IF p < 0 \/ p > v.size_ THEN Outcome(vs, h, RetThrow("Erase", x))
    ELSE LET h1 == StdMove(h, v.data_, p + 1, v.size_, v.data_, p, NoJunk)
             h2 == Store(h1, v.data_, v.size_ - 1, DefaultValue)
         IN Outcome([vs EXCEPT ![x].size_ = v.size_ - 1], h2,
                    Ret("Erase", x, "ok", FALSE, v.data_, p, DefaultValue))

\* Erase(ConstIterator pos)
EraseFn(vs, h, x, p) ==
    LET v == vs[x] IN
    IF v.size_ = 0 THEN Outcome(vs, h, RetThrow("Erase", x))
    ELSE IF p < 0 \/ p >= v.size_ THEN Outcome(vs, h, RetThrow("Erase", x))
    ELSE LET h1 == StdMove(h, v.data_, p + 1, v.size_, v.data_, p, NoJunk)
             h2 == Store(h1, v.data_, v.size_ - 1, DefaultValue)
         IN Outcome([vs EXCEPT ![x].size_ = v.size_ - 1], h2,
                    Ret("Erase", x, "ok", FALSE, v.data_, p, DefaultValue))

\* ---- SimpleVector: swap, construction, assignment, destruction ----

\* swap(other): std::swap of data_ (through ArrayPtr's move constructor and move
\* assignment, which delete only null pointers here), of size_ and of capacity_
SwapFn(vs, h, x, y) ==
    Outcome([vs EXCEPT ![x] = vs[y], ![y] = vs[x]], h, RetVoid("Swap", "a", FALSE))

\* SimpleVector()
DefaultCtorFn(vs, h, x) ==
    Outcome([vs EXCEPT ![x] = Empty], h, RetVoid("DefaultCtor", x, FALSE))

\* SimpleVector(size_t size, const Type& value); SimpleVector(size_t size) is
\* the same with value = Type()
SizedCtorFn(vs, h, x, size, value, g) ==
    LET a == ArrayPtrNew(h, size, g)
        h2 == FillRange(a.heap, a.raw_ptr_, 0, size, value)
    IN IF a.thrown THEN Outcome(vs, h, RetBadAlloc("SizedCtor", x))
       ELSE Outcome([vs EXCEPT ![x] = [alive |-> TRUE, size_ |-> size,
                                  capacity_ |-> size, data_ |-> a.raw_ptr_]],
               h2, RetVoid("SizedCtor", x, FALSE))

\* SimpleVector(ReserveProxyObj obj)
ReserveCtorFn(vs, h, x, capacity, g) ==
    LET a == ArrayPtrNew(h, capacity, g)
    IN IF a.thrown THEN Outcome(vs, h, RetBadAlloc("ReserveCtor", x))
       ELSE Outcome([vs EXCEPT ![x] = [alive |-> TRUE, size_ |-> 0,
                                  capacity_ |-> capacity, data_ |-> a.raw_ptr_]],
               a.heap, RetVoid("ReserveCtor", x, FALSE))

\* SimpleVector(std::initializer_list<Type> init); init is a 0-based array here
ListCtorFn(vs, h, x, init, g) ==
    LET n == Cardinality(DOMAIN init)
        a == ArrayPtrNew(h, n, g)
        h2 == IF n = 0 THEN a.heap
              ELSE [a.heap EXCEPT ![a.raw_ptr_].cells = init]
    IN IF a.thrown THEN Outcome(vs, h, RetBadAlloc("ListCtor", x))
       ELSE Outcome([vs EXCEPT ![x] = [alive |-> TRUE, size_ |-> n,
                                  capacity_ |-> n, data_ |-> a.raw_ptr_]],
               h2, RetVoid("ListCtor", x, FALSE))

\* SimpleVector(const SimpleVector& other): the new object and the heap
CopyOf(h, other, g) ==
    LET a == ArrayPtrNew(h, other.size_, g)
        h2 == StdMove(a.heap, other.data_, 0, other.size_, a.raw_ptr_, 0, NoJunk)
    IN [obj |-> [alive |-> TRUE, size_ |-> other.size_,
                 capacity_ |-> other.size_, data_ |-> a.raw_ptr_],
        heap |-> h2, thrown |-> a.thrown]

CopyCtorFn(vs, h, x, y, g) ==
    LET c == CopyOf(h, vs[y], g)
    IN IF c.thrown THEN Outcome(vs, h, RetBadAlloc("CopyCtor", x))
       ELSE Outcome([vs EXCEPT ![x] = c.obj], c.heap, RetVoid("CopyCtor", x, FALSE))

\* a move constructor that takes the block but leaves other's size_ and capacity_
MoveCtorKeepsCounts(vs, h, x, y) ==
    Outcome([vs EXCEPT ![x] = vs[y], ![y].data_ = Null], h, RetVoid("MoveCtor", x, FALSE))

\* SimpleVector(SimpleVector&& other)
MoveCtorFn(vs, h, x, y) ==
    Outcome([vs EXCEPT ![x] = vs[y], ![y] = Empty], h, RetVoid("MoveCtor", x, FALSE))

\* a copy assignment that takes over other's members one by one
CopyAssignShares(vs, h, x, y, g) ==
    IF x = y THEN Outcome(vs, h, RetVoid("CopyAssign", x, FALSE))
    ELSE Outcome([vs EXCEPT ![x] = vs[y]], ArrayPtrDtor(h, vs[x].data_),
                 RetVoid("CopyAssign", x, FALSE))

\* a copy assignment without the test for self-assignment
CopyAssignNoSelfCheck(vs, h, x, y, g) ==
    LET g2 == [i \in 0..(vs[y].size_ - 1) |-> DefaultValue]
        tmp == CopyOf(h, vs[y], g2)
        h2 == ArrayPtrDtor(tmp.heap, vs[x].data_)
    IN Outcome([vs EXCEPT ![x] = tmp.obj], h2, RetVoid("CopyAssign", x, FALSE))

\* operator=(const SimpleVector& other): copy into tmp, swap, destroy tmp
CopyAssignFn(vs, h, x, y, g) ==
    IF x = y THEN Outcome(vs, h, RetVoid("CopyAssign", x, FALSE))
    ELSE LET tmp == CopyOf(h, vs[y], g)
             h2 == ArrayPtrDtor(tmp.heap, vs[x].data_)
         IN IF tmp.thrown THEN Outcome(vs, h, RetBadAlloc("CopyAssign", x))
            ELSE Outcome([vs EXCEPT ![x] = tmp.obj], h2, RetVoid("CopyAssign", x, FALSE))

\* a move assignment that exchanges the two objects
MoveAssignSwaps(vs, h, x, y) ==
    Outcome([vs EXCEPT ![x] = vs[y], ![y] = vs[x]], h, RetVoid("MoveAssign", x, FALSE))

\* operator=(SimpleVector&& other)
MoveAssignFn(vs, h, x, y) ==
    IF x # y
    THEN Outcome([vs EXCEPT ![x] = vs[y], ![y] = Empty],
                 ArrayPtrMoveAssign(h, vs[x].data_, vs[y].data_),
                 RetVoid("MoveAssign", x, FALSE))
    ELSE Outcome(vs, h, RetVoid("MoveAssign", x, FALSE))

\* ~SimpleVector()
DtorFn(vs, h, x) ==
    Outcome([vs EXCEPT ![x] = Dead], ArrayPtrDtor(h, vs[x].data_),
            RetVoid("Dtor", x, FALSE))

\* ---- the slots the calls access ----
\* An access is <<i, n>>: slot i of a block of n slots.

\* the accesses of a pass over [first, last) of a block of n slots
Range(first, last, n) == {<<i, n>> : i \in first..(last - 1)}

\* PushBack(const Type&)
PushBackCopyTouches(vs, x) ==
    LET v == vs[x] IN
    IF v.size_ = v.capacity_
    THEN LET new_capacity == GrowCapacity(v.capacity_)
         IN Range(0, v.size_, v.capacity_)
                \cup Range(0, v.size_, new_capacity)
                \cup {<<v.size_, new_capacity>>}
    ELSE {<<v.size_, v.capacity_>>}

\* PushBack(Type&&): std::move(begin(), end() + size_, new_data.Get())
PushBackMoveTouches(vs, x) ==
    LET v == vs[x] IN
    IF v.size_ = v.capacity_
    THEN LET new_capacity == GrowCapacity(v.capacity_)
         IN Range(0, v.size_ + v.size_, v.capacity_)
                \cup Range(0, v.size_ + v.size_, new_capacity)
                \cup {<<v.size_, new_capacity>>}
    ELSE {<<v.size_, v.capacity_>>}

\* Insert(pos, value), either overload, with begin() <= pos <= end()
InsertTouches(vs, x, insert_index) ==
    LET v == vs[x] IN
    IF v.size_ = v.capacity_
    THEN LET new_capacity == GrowCapacity(v.capacity_)
         IN Range(0, insert_index, v.capacity_)
                \cup Range(0, insert_index, new_capacity)
                \cup {<<insert_index, new_capacity>>}
                \cup Range(insert_index, v.size_, v.capacity_)
                \cup Range(insert_index + 1, v.size_ + 1, new_capacity)
    ELSE Range(insert_index, v.size_, v.capacity_)
             \cup Range(insert_index + 1, v.size_ + 1, v.capacity_)
             \cup {<<insert_index, v.capacity_>>}

\* Resize(new_size)
ResizeTouches(vs, x, new_size) ==
    LET v == vs[x] IN
    IF new_size = v.size_ THEN {}
    ELSE IF new_size > v.capacity_
    THEN Range(0, v.size_, v.capacity_)
             \cup Range(0, v.size_, new_size)
             \cup Range(v.size_, new_size, new_size)
    ELSE Range(new_size, v.size_, v.capacity_)

\* Reserve(new_capacity)
ReserveTouches(vs, x, new_capacity) ==
    LET v == vs[x] IN
    IF new_capacity > v.capacity_
    THEN Range(0, v.size_, v.capacity_) \cup Range(0, v.size_, new_capacity)
    ELSE {}

\* Erase(pos) with begin() <= pos < end()
EraseTouches(vs, x, p) ==
    LET v == vs[x] IN
    Range(p + 1, v.size_, v.capacity_)
        \cup Range(p, v.size_ - 1, v.capacity_)
        \cup {<<v.size_ - 1, v.capacity_>>}

\* PopBack() with size_ > 0
PopBackTouches(vs, x) == {<<vs[x].size_ - 1, vs[x].capacity_>>}

\* operator[](index) with index < size_, and At(index)
IndexTouches(vs, x, index) ==
    IF index < vs[x].size_ THEN {<<index, vs[x].capacity_>>} ELSE {}

\* ---- the comparison operators ----

\* std::lexicographical_compare(p1 + i1, p1 + last1, p2 + i2, p2 + last2)
RECURSIVE LexicographicalCompare(_, _, _, _, _, _, _)
LexicographicalCompare(h, p1, i1, last1, p2, i2, last2) ==
    IF i1 = last1 \/ i2 = last2 THEN i1 = last1 /\ i2 # last2
    ELSE IF Load(h, p1, i1, NoJunk) < Load(h, p2, i2, NoJunk) THEN TRUE
    ELSE IF Load(h, p2, i2, NoJunk) < Load(h, p1, i1, NoJunk) THEN FALSE
    ELSE LexicographicalCompare(h, p1, i1 + 1, last1, p2, i2 + 1, last2)

\* std::equal(p1 + i1, p1 + last1, p2 + i2)
RECURSIVE StdEqual(_, _, _, _, _, _)
StdEqual(h, p1, i1, last1, p2, i2) ==
    IF i1 = last1 THEN TRUE
    ELSE IF Load(h, p1, i1, NoJunk) # Load(h, p2, i2, NoJunk) THEN FALSE
    ELSE StdEqual(h, p1, i1 + 1, last1, p2, i2 + 1)

\* operator<(lhs, rhs)
OperatorLess(vs, h, lhs, rhs) ==
    LexicographicalCompare(h, vs[lhs].data_, 0, vs[lhs].size_,
                           vs[rhs].data_, 0, vs[rhs].size_)

\* an operator== that compares the elements both vectors have, not the sizes
EqualIgnoresSize(vs, h, lhs, rhs) ==
    StdEqual(h, vs[lhs].data_, 0,
             IF vs[lhs].size_ < vs[rhs].size_ THEN vs[lhs].size_ ELSE vs[rhs].size_,
             vs[rhs].data_, 0)

\* operator==(lhs, rhs)
OperatorEqual(vs, h, lhs, rhs) ==
    /\ vs[lhs].size_ = vs[rhs].size_
    /\ StdEqual(h, vs[lhs].data_, 0, vs[lhs].size_, vs[rhs].data_, 0)

\* operator!=(lhs, rhs)
OperatorNotEqual(vs, h, lhs, rhs) == ~OperatorEqual(vs, h, lhs, rhs)

\* operator>(lhs, rhs)
OperatorGreater(vs, h, lhs, rhs) == OperatorLess(vs, h, rhs, lhs)

\* operator<=(lhs, rhs)
OperatorLessEq(vs, h, lhs, rhs) == ~OperatorGreater(vs, h, lhs, rhs)

\* operator>=(lhs, rhs)
OperatorGreaterEq(vs, h, lhs, rhs) == ~OperatorLess(vs, h, lhs, rhs)

\* the outcome of a comparison: nothing changes and the result is returned
CompareFn(vs, h, op, lhs, result) ==
    Outcome(vs, h, Ret(op, lhs, IF result THEN "true" ELSE "false",
                       FALSE, Null, 0, DefaultValue))

\* ---- the calls a client makes ----

\* calls that involve two objects
PairOps == {"CopyCtor", "MoveCtor", "CopyAssign", "MoveAssign", "Swap"}

\* no call has returned a result that the caller has yet to take
Idle == RetVoid("None", "a", FALSE)

\* a call can be made on the constructed object x / to construct x
Callable(x) == ret = Idle /\ vec[x].alive
Constructible(x) == ret = Idle /\ ~vec[x].alive

\* The step to outcome o.  With watch the call record is kept for every call and
\* the PushBack count and the Resize note are maintained; without it only calls
\* that involve two objects are recorded.  A call that ends in bad_alloc leaves
\* the PushBack count as it is.
Apply(o, watch, track) ==
    /\ vec' = o.vec
    /\ heap' = o.heap
    /\ ret' = IF watch \/ o.ret.op \in PairOps THEN o.ret ELSE Idle
    /\ pushes' = IF watch /\ o.ret.status # "BadAlloc" THEN track ELSE pushes
    /\ resized' = IF watch
                  THEN [z \in Vecs |-> IF /\ o.ret.op = "Resize"
                                          /\ o.ret.status = "ok"
                                          /\ o.ret.vec = z
                                       THEN o.ret.size0 ELSE NoTrack]
                  ELSE resized

\* the caller takes the result of the call that has returned
TakeResult ==
    /\ ret # Idle
    /\ ret' = Idle
    /\ UNCHANGED <<vec, heap, pushes, resized>>

\* the exploration stops short of capacities past the bounds
FitsCap(x, c) ==
    /\ c <= MaxCap
    /\ (c > 0 /\ vec[Other(x)].capacity_ > 0) => c + vec[Other(x)].capacity_ <= MaxTotal

Full(x) == vec[x].size_ = vec[x].capacity_

\* The contents a freshly allocated block of n slots may have.  Slots below
\* `written` are overwritten by the call before it returns, so one choice
\* stands for all of theirs.
UninitFrom(n, written) ==
    {[i \in 0..(n - 1) |-> IF i < written THEN DefaultValue ELSE t[i]] :
        t \in [written..(n - 1) -> Values]}

\* new Type[n] of n > 0 slots may throw instead of giving one of the contents S
MayThrow(n, S) == IF n > 0 THEN S \cup {BadAlloc} ELSE S

\* the block a growing PushBack or Insert allocates
GrowUninit(x) == IF Full(x)
                 THEN UninitFrom(GrowCapacity(vec[x].capacity_), vec[x].size_ + 1)
                 ELSE {NoJunk}
\* ... or the exception in its place
GrowAlloc(x) == MayThrow(IF Full(x) THEN 1 ELSE 0, GrowUninit(x))

\* what lies in the size_ slots past the end of x's block
PastEnd(x) == IF Full(x) THEN [vec[x].size_..(vec[x].size_ + vec[x].size_ - 1) -> Values]
              ELSE {NoJunk}

Untrack(S) == [z \in Vecs |-> IF z \in S THEN NoTrack ELSE pushes[z]]
CountPush(x) == [pushes EXCEPT ![x] = IF @ = NoTrack THEN NoTrack ELSE @ + 1]

\* the arguments worth trying on x: positions from one before begin() to one past
\* end(), indices up to capacity_ (every index >= size_ behaves like size_)
Positions(x) == (0 - 1)..(vec[x].size_ + 1)
Indices(x) == 0..vec[x].capacity_
Lists == UNION {Uninit(n) : n \in 0..MaxCap}

\* the outcome of a Resize with the notes size0 and back
NoteResize(o, x, new_size) ==
    [o EXCEPT !.ret.size0 = vec[x].size_,
              !.ret.back = (resized[x] = new_size)]

DefaultCtor(x, watch) ==
    /\ Constructible(x)
    /\ Apply(DefaultCtorFn(vec, heap, x), watch, [pushes EXCEPT ![x] = 0])

SizedCtor(x, size, value, watch) ==
    /\ Constructible(x) /\ FitsCap(x, size)
    /\ \E g \in MayThrow(size, UninitFrom(size, size)) :
           Apply(SizedCtorFn(vec, heap, x, size, value, g), watch, Untrack({x}))

ReserveCtor(x, capacity, watch) ==
    /\ Constructible(x) /\ FitsCap(x, capacity)
    /\ \E g \in MayThrow(capacity, Uninit(capacity)) :
           Apply(ReserveCtorFn(vec, heap, x, capacity, g), watch, Untrack({x}))

ListCtor(x, init, watch) ==
    /\ Constructible(x) /\ FitsCap(x, Cardinality(DOMAIN init))
    /\ \E g \in MayThrow(Cardinality(DOMAIN init),
                         UninitFrom(Cardinality(DOMAIN init), Cardinality(DOMAIN init))) :
           Apply(ListCtorFn(vec, heap, x, init, g), watch, Untrack({x}))

CopyCtor(x, y, watch) ==
    /\ Constructible(x) /\ vec[y].alive /\ FitsCap(x, vec[y].size_)
    /\ \E g \in MayThrow(vec[y].size_, UninitFrom(vec[y].size_, vec[y].size_)) :
           Apply(CopyCtorFn(vec, heap, x, y, g), watch, Untrack({x}))

MoveCtor(x, y, watch) ==
    /\ Constructible(x) /\ vec[y].alive
    /\ Apply(MoveCtorFn(vec, heap, x, y), watch, Untrack({x, y}))

CopyAssign(x, y, watch) ==
    /\ Callable(x) /\ vec[y].alive
    /\ x # y => FitsCap(x, vec[y].size_)
    /\ \E g \in MayThrow(IF x = y THEN 0 ELSE vec[y].size_,
                         UninitFrom(IF x = y THEN 0 ELSE vec[y].size_, vec[y].size_)) :
           Apply(CopyAssignFn(vec, heap, x, y, g), watch, Untrack({x}))

MoveAssign(x, y, watch) ==
    /\ Callable(x) /\ vec[y].alive
    /\ Apply(MoveAssignFn(vec, heap, x, y), watch, Untrack({x, y}))

Dtor(x, watch) ==
    /\ Callable(x)
    /\ Apply(DtorFn(vec, heap, x), watch, Untrack({x}))

Index(x, index, watch) ==
    /\ Callable(x) /\ index < vec[x].size_
    /\ Apply(IndexFn(vec, heap, x, index), watch, pushes)

IndexAssign(x, index, value, watch) ==
    /\ Callable(x) /\ index < vec[x].size_
    /\ Apply(IndexAssignFn(vec, heap, x, index, value), watch, Untrack({x}))

At(x, index, watch) ==
    /\ Callable(x)
    /\ Apply(AtFn(vec, heap, x, index), watch, pushes)

Resize(x, new_size, watch) ==
    /\ Callable(x)
    /\ new_size > vec[x].capacity_ => FitsCap(x, new_size)
    /\ \E g \in MayThrow(IF new_size > vec[x].capacity_ THEN new_size ELSE 0,
                         UninitFrom(IF new_size > vec[x].capacity_ THEN new_size ELSE 0,
                                    new_size)) :
           Apply(NoteResize(ResizeFn(vec, heap, x, new_size, g), x, new_size),
                 watch, Untrack({x}))

Clear(x, watch) ==
    /\ Callable(x)
    /\ Apply(ClearFn(vec, heap, x), watch, Untrack({x}))

Reserve(x, new_capacity, watch) ==
    /\ Callable(x)
    /\ new_capacity > vec[x].capacity_ => FitsCap(x, new_capacity)
    /\ \E g \in MayThrow(IF new_capacity > vec[x].capacity_ THEN new_capacity ELSE 0,
                         UninitFrom(IF new_capacity > vec[x].capacity_ THEN new_capacity
                                    ELSE 0,
                                    vec[x].size_)) :
           Apply(ReserveFn(vec, heap, x, new_capacity, g), watch, Untrack({x}))

PushBackCopy(x, item, watch) ==
    /\ Callable(x)
    /\ Full(x) => FitsCap(x, GrowCapacity(vec[x].capacity_))
    /\ \E g \in GrowAlloc(x) :
           Apply(PushBackCopyFn(vec, heap, x, item, g), watch, CountPush(x))

PushBackMove(x, item, watch) ==
    /\ Callable(x)
    /\ Full(x) => FitsCap(x, GrowCapacity(vec[x].capacity_))
    /\ \E g \in GrowAlloc(x), junk \in PastEnd(x) :
           Apply(PushBackMoveFn(vec, heap, x, item, g, junk), watch, CountPush(x))

InsertCopy(x, p, value, watch) ==
    /\ Callable(x)
    /\ Full(x) => FitsCap(x, GrowCapacity(vec[x].capacity_))
    /\ \E g \in GrowAlloc(x) :
           Apply(InsertCopyFn(vec, heap, x, p, value, g), watch, Untrack({x}))

InsertMove(x, p, value, watch) ==
    /\ Callable(x)
    /\ Full(x) => FitsCap(x, GrowCapacity(vec[x].capacity_))
    /\ \E g \in GrowAlloc(x) :
           Apply(InsertMoveFn(vec, heap, x, p, value, g), watch, Untrack({x}))

PopBack(x, watch) ==
    /\ Callable(x) /\ vec[x].size_ > 0
    /\ Apply(PopBackFn(vec, heap, x), watch, Untrack({x}))

Erase(x, p, watch) ==
    /\ Callable(x)
    /\ Apply(EraseFn(vec, heap, x, p), watch, Untrack({x}))

Swap(x, y, watch) ==
    /\ Callable(x) /\ vec[y].alive
    /\ Apply(SwapFn(vec, heap, x, y), watch, Untrack({x, y}))

Less(lhs, rhs, watch) ==
    /\ Callable(lhs) /\ vec[rhs].alive
    /\ Apply(CompareFn(vec, heap, "Less", lhs, OperatorLess(vec, heap, lhs, rhs)),
             watch, pushes)

Equal(lhs, rhs, watch) ==
    /\ Callable(lhs) /\ vec[rhs].alive
    /\ Apply(CompareFn(vec, heap, "Equal", lhs, OperatorEqual(vec, heap, lhs, rhs)),
             watch, pushes)

NotEqual(lhs, rhs, watch) ==
    /\ Callable(lhs) /\ vec[rhs].alive
    /\ Apply(CompareFn(vec, heap, "NotEqual", lhs, OperatorNotEqual(vec, heap, lhs, rhs)),
             watch, pushes)

Greater(lhs, rhs, watch) ==
    /\ Callable(lhs) /\ vec[rhs].alive
    /\ Apply(CompareFn(vec, heap, "Greater", lhs, OperatorGreater(vec, heap, lhs, rhs)),
             watch, pushes)

LessEq(lhs, rhs, watch) ==
    /\ Callable(lhs) /\ vec[rhs].alive
    /\ Apply(CompareFn(vec, heap, "LessEq", lhs, OperatorLessEq(vec, heap, lhs, rhs)),
             watch, pushes)

GreaterEq(lhs, rhs, watch) ==
    /\ Callable(lhs) /\ vec[rhs].alive
    /\ Apply(CompareFn(vec, heap, "GreaterEq", lhs,
                       OperatorGreaterEq(vec, heap, lhs, rhs)),
             watch, pushes)

\* ---- a program with one vector object: every call is recorded ----

Init ==
    /\ vec = [x \in Vecs |-> IF x = "a" THEN Empty ELSE Dead]
    /\ heap = [p \in Addrs |-> FreeBlock]
    /\ ret = Idle
    /\ pushes = [x \in Vecs |-> IF x = "a" THEN 0 ELSE NoTrack]
    /\ resized = [x \in Vecs |-> NoTrack]

Next ==
    \/ DefaultCtor("a", TRUE)
    \/ \E size \in 0..MaxCap, value \in Values : SizedCtor("a", size, value, TRUE)
    \/ \E capacity \in 0..MaxCap : ReserveCtor("a", capacity, TRUE)
    \/ \E init \in Lists : ListCtor("a", init, TRUE)
    \/ CopyAssign("a", "a", TRUE)
    \/ MoveAssign("a", "a", TRUE)
    \/ Dtor("a", TRUE)
    \/ \E index \in Indices("a") : Index("a", index, TRUE)
    \/ \E index \in Indices("a"), value \in Values : IndexAssign("a", index, value, TRUE)
    \/ \E index \in Indices("a") : At("a", index, TRUE)
    \/ \E new_size \in 0..MaxCap : Resize("a", new_size, TRUE)
    \/ Clear("a", TRUE)
    \/ \E new_capacity \in 0..MaxCap : Reserve("a", new_capacity, TRUE)
    \/ \E item \in Values : PushBackCopy("a", item, TRUE)
    \/ \E item \in Values : PushBackMove("a", item, TRUE)
    \/ \E p \in Positions("a"), value \in Values : InsertCopy("a", p, value, TRUE)
    \/ \E p \in Positions("a"), value \in Values : InsertMove("a", p, value, TRUE)
    \/ PopBack("a", TRUE)
    \/ \E p \in Positions("a") : Erase("a", p, TRUE)
    \/ Swap("a", "a", TRUE)
    \/ TakeResult

Spec == Init /\ [][Next]_vars

\* ---- a program with two vector objects ----

InitPair ==
    /\ vec = [x \in Vecs |-> Empty]
    /\ heap = [p \in Addrs |-> FreeBlock]
    /\ ret = Idle
    /\ pushes = [x \in Vecs |-> NoTrack]
    /\ resized = [x \in Vecs |-> NoTrack]

NextPair ==
    \/ \E x \in Vecs : DefaultCtor(x, FALSE)
    \/ \E x \in Vecs, size \in 0..MaxCap, value \in Values : SizedCtor(x, size, value, FALSE)
    \/ \E x \in Vecs, capacity \in 0..MaxCap : ReserveCtor(x, capacity, FALSE)
    \/ \E x \in Vecs, init \in Lists : ListCtor(x, init, FALSE)
    \/ \E x \in Vecs : CopyCtor(x, Other(x), FALSE)
    \/ \E x \in Vecs : MoveCtor(x, Other(x), FALSE)
    \/ \E x \in Vecs, y \in Vecs : CopyAssign(x, y, FALSE)
    \/ \E x \in Vecs, y \in Vecs : MoveAssign(x, y, FALSE)
    \/ \E x \in Vecs : Dtor(x, FALSE)
    \/ \E x \in Vecs : \E index \in Indices(x) : Index(x, index, FALSE)
    \/ \E x \in Vecs : \E index \in Indices(x), value \in Values :
           IndexAssign(x, index, value, FALSE)
    \/ \E x \in Vecs : \E index \in Indices(x) : At(x, index, FALSE)
    \/ \E x \in Vecs, new_size \in 0..MaxCap : Resize(x, new_size, FALSE)
    \/ \E x \in Vecs : Clear(x, FALSE)
    \/ \E x \in Vecs, new_capacity \in 0..MaxCap : Reserve(x, new_capacity, FALSE)
    \/ \E x \in Vecs, item \in Values : PushBackCopy(x, item, FALSE)
    \/ \E x \in Vecs, item \in Values : PushBackMove(x, item, FALSE)
    \/ \E x \in Vecs : \E p \in Positions(x), value \in Values : InsertCopy(x, p, value, FALSE)
    \/ \E x \in Vecs : \E p \in Positions(x), value \in Values : InsertMove(x, p, value, FALSE)
    \/ \E x \in Vecs : PopBack(x, FALSE)
    \/ \E x \in Vecs : \E p \in Positions(x) : Erase(x, p, FALSE)
    \/ \E x \in Vecs, y \in Vecs : Swap(x, y, FALSE)
    \/ TakeResult

SpecPair == InitPair /\ [][NextPair]_vars

\* ---- a program that compares two vectors ----

\* Each vector is in a state that the Reserve constructor with capacity c and
\* then s <= c calls of PushBack leave: s elements in a block of c slots whose
\* other slots hold what the allocation left there.
InitCompare ==
    \E ca \in 0..MaxCmp, cb \in 0..MaxCmp :
        \E sa \in 0..ca, sb \in 0..cb, ga \in Uninit(ca), gb \in Uninit(cb) :
            LET dead == [x \in Vecs |-> Dead]
                none == [p \in Addrs |-> FreeBlock]
                o1 == ReserveCtorFn(dead, none, "a", ca, ga)
                o2 == ReserveCtorFn(o1.vec, o1.heap, "b", cb, gb)
            IN /\ vec = [o2.vec EXCEPT !["a"].size_ = sa, !["b"].size_ = sb]
               /\ heap = o2.heap
               /\ ret = Idle
               /\ pushes = [x \in Vecs |-> NoTrack]
               /\ resized = [x \in Vecs |-> NoTrack]

NextCompare ==
    \/ \E x \in Vecs : Less(x, Other(x), TRUE)
    \/ \E x \in Vecs : Equal(x, Other(x), TRUE)
    \/ \E x \in Vecs : NotEqual(x, Other(x), TRUE)
    \/ \E x \in Vecs : Greater(x, Other(x), TRUE)
    \/ \E x \in Vecs : LessEq(x, Other(x), TRUE)
    \/ \E x \in Vecs : GreaterEq(x, Other(x), TRUE)
    \/ TakeResult

SpecCompare == InitCompare /\ [][NextCompare]_vars

\* ---- what the properties read ----

NoValue == 0 - 1

\* the element in slot i of x's block in (vs, h); NoValue when there is no such slot
SlotOf(vs, h, x, i) ==
    IF InBlock(h, vs[x].data_, i) THEN h[vs[x].data_].cells[i] ELSE NoValue

\* the live elements of x in (vs, h), as a sequence
LiveOf(vs, h, x) == [i \in 1..vs[x].size_ |-> SlotOf(vs, h, x, i - 1)]

Live(x) == LiveOf(vec, heap, x)
After(o, x) == LiveOf(o.vec, o.heap, x)

\* a growing PushBack or Insert on x stays within the bounds
GrowFits(x) == Full(x) => FitsCap(x, GrowCapacity(vec[x].capacity_))

\* ---- C1 ----

\* C1: in every reachable state of a program that constructs, copies, moves,
\* swaps, mutates and destroys two vectors, each vector has
\* 0 <= size_ <= capacity_, and capacity_ is the number of slots of the block
\* data_ owns (0 when data_ is null).
C1_SizeCapacityInvariant ==
    \A x \in Vecs :
        /\ 0 <= vec[x].size_
        /\ vec[x].size_ <= vec[x].capacity_
        /\ vec[x].capacity_ = Slots(heap, vec[x].data_)
        /\ vec[x].data_ = Null <=> vec[x].capacity_ = 0

\* right after a swap both objects hold elements in blocks of different sizes,
\* one of them with spare capacity
C1_Witness ==
    /\ ret.op = "Swap"
    /\ \A x \in Vecs : vec[x].alive /\ 0 < vec[x].size_
    /\ vec["a"].capacity_ < vec["b"].capacity_
    /\ vec["b"].size_ < vec["b"].capacity_

\* ---- C2 ----

\* the smallest power of two that is >= n, for n >= 1
CeilPow2(n) == CHOOSE p \in {2 ^ k : k \in 0..n} :
                   p >= n /\ \A q \in {2 ^ k : k \in 0..n} : q >= n => p <= q

\* after N PushBack calls on a default-constructed vector
C2_AfterPushes ==
    \A x \in Vecs :
        pushes[x] # NoTrack =>
            /\ vec[x].size_ = pushes[x]
            /\ vec[x].capacity_ >= pushes[x]
            /\ vec[x].capacity_ = IF pushes[x] = 0 THEN 0 ELSE CeilPow2(pushes[x])

\* a step of such a run that changes the capacity
C2_CapacityStep ==
    \A x \in Vecs :
        (pushes[x] # NoTrack /\ pushes'[x] # NoTrack
            /\ vec'[x].capacity_ # vec[x].capacity_) =>
            /\ pushes'[x] = pushes[x] + 1
            /\ vec[x].size_ = vec[x].capacity_
            /\ vec'[x].capacity_ = IF vec[x].capacity_ = 0 THEN 1
                                   ELSE 2 * vec[x].capacity_

\* C2: after N consecutive PushBack calls on a default-constructed vector size_
\* is N and capacity_ is the smallest power of two >= N (0 for N = 0); the
\* capacity changes only on a PushBack made when size_ = capacity_, to 1 from 0
\* and to twice its value otherwise.
C2_PushBackDoubling == [](C2_AfterPushes) /\ [][C2_CapacityStep]_vars

\* three pushes in: the capacity has gone 1, 2, 4
C2_Witness ==
    /\ pushes["a"] = 3
    /\ vec["a"].size_ = 3
    /\ vec["a"].capacity_ = 4
    /\ ret.grew

\* ---- C3 ----

C3_Post(x, item, o) ==
    /\ o.vec[x].size_ = vec[x].size_ + 1
    /\ After(o, x) = Append(Live(x), item)

\* C3: from every reachable state, PushBack(item), copying or moving, growing
\* or not, leaves size_ + 1 elements: the old ones in order, then item.
C3_PushBackAppends ==
    \A x \in Vecs : \A item \in Values :
        (Callable(x) /\ GrowFits(x)) =>
            /\ \A g \in GrowUninit(x) :
                   C3_Post(x, item, PushBackCopyFn(vec, heap, x, item, g))
            /\ \A g \in GrowUninit(x), junk \in PastEnd(x) :
                   C3_Post(x, item, PushBackMoveFn(vec, heap, x, item, g, junk))

\* a moving PushBack has just relocated two elements into a block of four
C3_Witness ==
    /\ ret.op = "PushBackMove"
    /\ ret.grew
    /\ vec["a"].size_ = 3
    /\ vec["a"].capacity_ = 4
    /\ Live("a")[1] # Live("a")[2]

\* ---- C4 ----

\* C4 as claimed: from every reachable state, Resize(new_size) with
\* size_ < new_size <= capacity_ sets size_ to new_size, keeps capacity_ and
\* the elements below the old size_, and leaves every element from the old
\* size_ up to new_size equal to Type().
C4_ResizeWithinCapacityDefaults ==
    \A x \in Vecs : \A new_size \in 0..MaxCap :
        (Callable(x) /\ vec[x].size_ < new_size /\ new_size <= vec[x].capacity_) =>
            LET o == ResizeFn(vec, heap, x, new_size, NoJunk) IN
            /\ o.vec[x].size_ = new_size
            /\ o.vec[x].capacity_ = vec[x].capacity_
            /\ \A i \in 0..(vec[x].size_ - 1) :
                   SlotOf(o.vec, o.heap, x, i) = SlotOf(vec, heap, x, i)
            /\ \A i \in vec[x].size_..(new_size - 1) :
                   SlotOf(o.vec, o.heap, x, i) = DefaultValue

\* ---- C5 ----

\* the blocks Resize(new_size) on x may allocate
ResizeUninit(x, new_size) ==
    UninitFrom(IF new_size > vec[x].capacity_ THEN new_size ELSE 0, new_size)

ResizeFits(x, new_size) == new_size > vec[x].capacity_ => FitsCap(x, new_size)

\* C5: Resize(n) then Resize(s) on a vector of size s gives size s again; below
\* min(n, s) the elements are the original ones, and from n up to s (when
\* n < s) they are Type().
C5_ResizeRoundTrip ==
    \A x \in Vecs : \A n \in 0..(MaxCap + 1) :
        (Callable(x) /\ ResizeFits(x, n)) =>
            \A g \in ResizeUninit(x, n) :
                LET s == vec[x].size_
                    o1 == ResizeFn(vec, heap, x, n, g)
                    o2 == ResizeFn(o1.vec, o1.heap, x, s, NoJunk)
                IN /\ o2.vec[x].size_ = s
                   /\ \A i \in 0..(s - 1) :
                          SlotOf(o2.vec, o2.heap, x, i) =
                              IF i < n THEN SlotOf(vec, heap, x, i) ELSE DefaultValue

\* a Resize back up to the size the vector had before the Resize just before it
C5_Witness ==
    /\ ret.op = "Resize"
    /\ ret.back
    /\ ret.size0 + 2 <= vec["a"].size_
    /\ Live("a")[1] # DefaultValue

\* ---- C6 ----

\* C6: Resize(new_size) past capacity_ makes size_ and capacity_ exactly
\* new_size, keeps the old elements and fills the rest with Type(); at or
\* below capacity_ it keeps capacity_; Resize(size_) changes nothing.
C6_ResizeExact ==
    \A x \in Vecs : \A new_size \in 0..(MaxCap + 1) :
        (Callable(x) /\ ResizeFits(x, new_size)) =>
            \A g \in ResizeUninit(x, new_size) :
                LET o == ResizeFn(vec, heap, x, new_size, g) IN
                /\ new_size > vec[x].capacity_ =>
                       /\ o.vec[x].size_ = new_size
                       /\ o.vec[x].capacity_ = new_size
                       /\ Slots(o.heap, o.vec[x].data_) = new_size
                       /\ \A i \in 0..(new_size - 1) :
                              SlotOf(o.vec, o.heap, x, i) =
                                  IF i < vec[x].size_ THEN SlotOf(vec, heap, x, i)
                                  ELSE DefaultValue
                /\ new_size <= vec[x].capacity_ =>
                       /\ o.vec[x].capacity_ = vec[x].capacity_
                       /\ o.vec[x].data_ = vec[x].data_
                /\ new_size = vec[x].size_ => o.vec = vec /\ o.heap = heap

\* a Resize has just grown a vector of two elements to a capacity of three
C6_Witness ==
    /\ ret.op = "Resize"
    /\ ret.grew
    /\ ret.size0 = 2
    /\ vec["a"].size_ = 3
    /\ vec["a"].capacity_ = 3
    /\ Live("a")[2] # DefaultValue

\* ---- C7 ----

\* e with v put in before its element number idx + 1
InsertedAt(e, idx, v) == SubSeq(e, 1, idx) \o <<v>> \o SubSeq(e, idx + 1, Len(e))

C7_Post(x, idx, v, o) ==
    /\ o.ret.status = "ok"
    /\ o.vec[x].size_ = vec[x].size_ + 1
    /\ After(o, x) = InsertedAt(Live(x), idx, v)
    /\ o.ret.addr = o.vec[x].data_
    /\ o.ret.off = idx
    /\ o.vec[x].capacity_ =
           IF vec[x].size_ < vec[x].capacity_ THEN vec[x].capacity_
           ELSE IF vec[x].capacity_ = 0 THEN 1 ELSE 2 * vec[x].capacity_

\* C7: Insert(begin() + idx, v) with 0 <= idx <= size_, copying or moving, gives
\* the old elements with v before the one at idx, returns begin() + idx of the
\* vector as it is afterwards, and keeps the capacity unless the vector was
\* full, when it becomes 1 from 0 and doubles otherwise.
C7_InsertAtIndex ==
    \A x \in Vecs : \A v \in Values :
        (Callable(x) /\ GrowFits(x)) =>
            \A idx \in 0..vec[x].size_ : \A g \in GrowUninit(x) :
                /\ C7_Post(x, idx, v, InsertCopyFn(vec, heap, x, idx, v, g))
                /\ C7_Post(x, idx, v, InsertMoveFn(vec, heap, x, idx, v, g))

\* a moving Insert has just shifted two elements right within the block
C7_Witness ==
    /\ ret.op = "InsertMove"
    /\ ret.status = "ok"
    /\ ~ret.grew
    /\ ret.off = 0
    /\ vec["a"].size_ = 3
    /\ Live("a")[2] # Live("a")[3]

\* ---- C8 ----

\* e without its element number idx + 1
ErasedAt(e, idx) == SubSeq(e, 1, idx) \o SubSeq(e, idx + 2, Len(e))

\* C8: Erase(begin() + idx) with 0 <= idx < size_ leaves the other elements in
\* order, keeps capacity_, resets the slot that was last to Type() and returns
\* begin() + idx, which is end() when the last element was erased.
C8_EraseAtIndex ==
    \A x \in Vecs :
        Callable(x) =>
            \A idx \in 0..(vec[x].size_ - 1) :
                LET o == EraseFn(vec, heap, x, idx) IN
                /\ o.ret.status = "ok"
                /\ o.vec[x].size_ = vec[x].size_ - 1
                /\ After(o, x) = ErasedAt(Live(x), idx)
                /\ o.vec[x].capacity_ = vec[x].capacity_
                /\ o.vec[x].data_ = vec[x].data_
                /\ SlotOf(o.vec, o.heap, x, vec[x].size_ - 1) = DefaultValue
                /\ o.ret.addr = o.vec[x].data_
                /\ o.ret.off = idx
                /\ idx = vec[x].size_ - 1 => o.ret.off = o.vec[x].size_

\* an Erase of the first of three elements has just returned
C8_Witness ==
    /\ ret.op = "Erase"
    /\ ret.status = "ok"
    /\ ret.off = 0
    /\ vec["a"].size_ = 2
    /\ Live("a")[1] # Live("a")[2]
    /\ vec["a"].capacity_ >= 3

\* ---- C9 ----

C9_Thrown(o) == o.ret.status = "OutOfRange" /\ o.vec = vec /\ o.heap = heap

\* C9: Insert at a position outside [begin(), end()], Erase on an empty vector
\* or at a position outside [begin(), end()), and At at an index >= size_ throw
\* out_of_range and leave size_, capacity_, data_ and every stored element as
\* they were.
C9_OutOfRangeKeepsState ==
    \A x \in Vecs :
        Callable(x) =>
            /\ \A p \in (0 - 2)..(MaxCap + 2) : \A v \in Values :
                   (p < 0 \/ p > vec[x].size_) =>
                       \A g \in GrowUninit(x) :
                           /\ C9_Thrown(InsertCopyFn(vec, heap, x, p, v, g))
                           /\ C9_Thrown(InsertMoveFn(vec, heap, x, p, v, g))
            /\ \A p \in (0 - 2)..(MaxCap + 2) :
                   (vec[x].size_ = 0 \/ p < 0 \/ p >= vec[x].size_) =>
                       C9_Thrown(EraseFn(vec, heap, x, p))
            /\ \A i \in 0..(MaxCap + 2) :
                   i >= vec[x].size_ => C9_Thrown(AtFn(vec, heap, x, i))

\* an Erase at end() of a vector with elements has just thrown
C9_Witness ==
    /\ ret.op = "Erase"
    /\ ret.status = "OutOfRange"
    /\ vec["a"].size_ >= 2
    /\ vec["a"].size_ < vec["a"].capacity_

\* ---- C10 ----

\* C10: At(i) returns what operator[](i) returns, the element number i, for
\* every i < size_, and throws out_of_range for every i >= size_, within the
\* capacity or not.
C10_AtChecked ==
    \A x \in Vecs :
        Callable(x) =>
            \A i \in 0..(MaxCap + 2) :
                LET at == AtFn(vec, heap, x, i).ret IN
                /\ i < vec[x].size_ =>
                       /\ at.status = "ok"
                       /\ at.val = IndexFn(vec, heap, x, i).ret.val
                       /\ at.val = Live(x)[i + 1]
                /\ i >= vec[x].size_ => at.status = "OutOfRange"

\* At has just thrown for an index between size_ and capacity_
C10_Witness ==
    /\ ret.op = "At"
    /\ ret.status = "OutOfRange"
    /\ vec["a"].size_ >= 1
    /\ ret.off >= vec["a"].size_
    /\ ret.off < vec["a"].capacity_

\* At has just returned the last element
C10_WitnessOk ==
    /\ ret.op = "At"
    /\ ret.status = "ok"
    /\ ret.off = vec["a"].size_ - 1
    /\ ret.val # DefaultValue

\* ---- C11 ----

\* the addresses of the allocated blocks
LiveBlocks(h) == {p \in Addrs : h[p].live}

\* o pushed item onto the emptied x without a new block
C11_PushedInPlace(x, item, o) ==
    /\ ~o.ret.grew
    /\ LiveBlocks(o.heap) = LiveBlocks(heap)
    /\ o.vec[x].data_ = vec[x].data_
    /\ o.vec[x].capacity_ = vec[x].capacity_
    /\ o.vec[x].size_ = 1
    /\ SlotOf(o.vec, o.heap, x, 0) = item

\* C11: Clear() sets size_ to 0 and keeps capacity_, data_ and the whole heap;
\* when capacity_ > 0 a PushBack made next, copying or moving, allocates
\* nothing, keeps capacity_ and the block, and gives size_ 1 with the item in
\* slot 0.
C11_ClearKeepsBuffer ==
    \A x \in Vecs :
        Callable(x) =>
            LET c == ClearFn(vec, heap, x) IN
            /\ c.vec[x].size_ = 0
            /\ c.vec[x].capacity_ = vec[x].capacity_
            /\ c.vec[x].data_ = vec[x].data_
            /\ c.heap = heap
            /\ vec[x].capacity_ > 0 =>
                   \A item \in Values :
                       /\ C11_PushedInPlace(x, item,
                              PushBackCopyFn(c.vec, c.heap, x, item, NoJunk))
                       /\ C11_PushedInPlace(x, item,
                              PushBackMoveFn(c.vec, c.heap, x, item, NoJunk, NoJunk))

\* Clear has just emptied a vector of two elements, whose values stay in the block
C11_Witness ==
    /\ ret.op = "Clear"
    /\ vec["a"].size_ = 0
    /\ vec["a"].capacity_ >= 2
    /\ SlotOf(vec, heap, "a", 0) # DefaultValue
    /\ SlotOf(vec, heap, "a", 1) # DefaultValue

\* ---- C12 ----

\* the blocks Reserve(new_capacity) on x may allocate
ReserveUninit(x, new_capacity) ==
    UninitFrom(IF new_capacity > vec[x].capacity_ THEN new_capacity ELSE 0, vec[x].size_)

\* C12: Reserve(new_capacity) past capacity_ makes capacity_ exactly
\* new_capacity, in a block of that many slots, and keeps size_ and the live
\* elements in order; at or below capacity_ it changes nothing at all.  The
\* capacity never decreases.
C12_ReserveNeverShrinks ==
    \A x \in Vecs : \A new_capacity \in 0..(MaxCap + 1) :
        (Callable(x) /\ ResizeFits(x, new_capacity)) =>
            \A g \in ReserveUninit(x, new_capacity) :
                LET o == ReserveFn(vec, heap, x, new_capacity, g) IN
                /\ o.vec[x].capacity_ >= vec[x].capacity_
                /\ new_capacity > vec[x].capacity_ =>
                       /\ o.vec[x].capacity_ = new_capacity
                       /\ Slots(o.heap, o.vec[x].data_) = new_capacity
                       /\ o.vec[x].size_ = vec[x].size_
                       /\ After(o, x) = Live(x)
                /\ new_capacity <= vec[x].capacity_ => o.vec = vec /\ o.heap = heap

\* a Reserve has just moved two elements into a larger block
C12_Witness ==
    /\ ret.op = "Reserve"
    /\ ret.grew
    /\ vec["a"].size_ = 2
    /\ vec["a"].capacity_ > 2
    /\ Live("a")[1] # Live("a")[2]

\* a Reserve of less than the capacity has just returned
C12_WitnessNoOp ==
    /\ ret.op = "Reserve"
    /\ ~ret.grew
    /\ vec["a"].size_ >= 1
    /\ vec["a"].size_ < vec["a"].capacity_

\* ---- C13 ----

\* x = y as a copy: the constructor when x is yet to be constructed, the
\* assignment otherwise
CopyInto(x, y, g) ==
    IF vec[x].alive THEN CopyAssignFn(vec, heap, x, y, g)
    ELSE CopyCtorFn(vec, heap, x, y, g)

\* object w and its block are in o as they are now
SameObject(o, w) ==
    /\ o.vec[w] = vec[w]
    /\ vec[w].data_ # Null => o.heap[vec[w].data_] = heap[vec[w].data_]

C13_Copied(x, y, o) ==
    /\ o.ret.status = "ok"
    /\ o.vec[x].alive
    /\ o.vec[x].size_ = vec[y].size_
    /\ o.vec[x].capacity_ = vec[y].size_
    /\ Slots(o.heap, o.vec[x].data_) = vec[y].size_
    /\ After(o, x) = Live(y)
    /\ After(o, x) = After(o, y)
    /\ SameObject(o, y)
    /\ o.vec[x].data_ # Null => o.vec[x].data_ # o.vec[y].data_

\* every outcome of a mutating call on z leaves the other object as it is
C13_Independent(z) ==
    LET w == Other(z) IN
    /\ \A i \in 0..(vec[z].size_ - 1) : \A v \in Values :
           SameObject(IndexAssignFn(vec, heap, z, i, v), w)
    /\ GrowFits(z) => \A v \in Values : \A g \in GrowUninit(z) :
           /\ SameObject(PushBackCopyFn(vec, heap, z, v, g), w)
           /\ \A junk \in PastEnd(z) :
                  SameObject(PushBackMoveFn(vec, heap, z, v, g, junk), w)
           /\ \A p \in 0..vec[z].size_ :
                  /\ SameObject(InsertCopyFn(vec, heap, z, p, v, g), w)
                  /\ SameObject(InsertMoveFn(vec, heap, z, p, v, g), w)
    /\ \A p \in 0..(vec[z].size_ - 1) : SameObject(EraseFn(vec, heap, z, p), w)
    /\ \A n \in 0..MaxCap : ResizeFits(z, n) => \A g \in ResizeUninit(z, n) :
           SameObject(ResizeFn(vec, heap, z, n, g), w)
    /\ SameObject(ClearFn(vec, heap, z), w)

\* C13: copy construction and copy assignment of x from another object y give
\* x the size of y, a capacity equal to that size whatever the capacities
\* were, the elements of y in a block of its own, and leave y as it was; in
\* the state a copy leaves, an element write, PushBack, Insert, Erase, Resize
\* or Clear on either object leaves the other object and its block unchanged.
C13_CopyIsDeep ==
    /\ \A x \in Vecs :
           LET y == Other(x) IN
           (ret = Idle /\ vec[y].alive) =>
               \A g \in UninitFrom(vec[y].size_, vec[y].size_) :
                   C13_Copied(x, y, CopyInto(x, y, g))
    /\ (ret.op \in {"CopyCtor", "CopyAssign"} /\ \A z \in Vecs : vec[z].alive) =>
           \A z \in Vecs : C13_Independent(z)

\* a copy constructor has just copied the one element of a vector with spare capacity
C13_Witness ==
    /\ ret.op = "CopyCtor"
    /\ vec[ret.vec].size_ = 1
    /\ vec[ret.vec].capacity_ = 1
    /\ vec[Other(ret.vec)].capacity_ > 1
    /\ Live(ret.vec) = Live(Other(ret.vec))
    /\ Live(ret.vec)[1] # DefaultValue
    /\ vec[ret.vec].data_ # vec[Other(ret.vec)].data_

\* a copy assignment has just replaced the block of a vector that held one
C13_WitnessAssign ==
    /\ ret.op = "CopyAssign"
    /\ vec["a"].data_ # vec["b"].data_
    /\ vec["a"].size_ = 1 /\ vec["b"].size_ = 1
    /\ vec["a"].capacity_ # vec["b"].capacity_
    /\ Live("a") = Live("b")
    /\ Live("a")[1] # DefaultValue

\* ---- C14 ----

\* x = std::move(y): the constructor when x is yet to be constructed, the
\* assignment otherwise
MoveInto(x, y) ==
    IF vec[x].alive THEN MoveAssignFn(vec, heap, x, y)
    ELSE MoveCtorFn(vec, heap, x, y)

C14_Moved(x, y, o) ==
    /\ o.vec[y].alive
    /\ o.vec[y].size_ = 0
    /\ o.vec[y].capacity_ = 0
    /\ o.vec[y].data_ = Null
    /\ o.vec[x] = vec[y]
    /\ vec[y].data_ # Null => o.heap[vec[y].data_] = heap[vec[y].data_]
    /\ After(o, x) = Live(y)

\* C14: move construction and move assignment of x from another object y
\* leave y with size_ 0, capacity_ 0 and no block, and x with the size_,
\* capacity_, block and elements y had; a move assignment of an object to
\* itself changes neither the objects nor the heap.
C14_MoveEmptiesSource ==
    \A x \in Vecs :
        LET y == Other(x) IN
        /\ (ret = Idle /\ vec[y].alive) => C14_Moved(x, y, MoveInto(x, y))
        /\ Callable(x) =>
               LET o == MoveAssignFn(vec, heap, x, x) IN
               o.vec = vec /\ o.heap = heap

\* a move constructor has just taken a block with spare capacity
C14_Witness ==
    /\ ret.op = "MoveCtor"
    /\ vec[ret.vec].size_ >= 2
    /\ vec[ret.vec].size_ < vec[ret.vec].capacity_
    /\ Live(ret.vec)[1] # Live(ret.vec)[2]
    /\ vec[Other(ret.vec)] = Empty

\* a move assignment of an object to itself has just returned: after any other
\* move assignment the source holds no block
C14_WitnessSelf ==
    /\ ret.op = "MoveAssign"
    /\ \A z \in Vecs : vec[z].alive /\ vec[z].data_ # Null

\* ---- C15 ----

\* C15: the copy assignment of an object to itself leaves its size_,
\* capacity_, data_ and elements as they were and allocates and frees nothing:
\* the objects and the whole heap are unchanged.
C15_SelfAssignNoOp ==
    \A x \in Vecs :
        Callable(x) =>
            LET o == CopyAssignFn(vec, heap, x, x, NoJunk) IN
            /\ o.ret.status = "ok"
            /\ o.vec = vec
            /\ o.heap = heap
            /\ LiveBlocks(o.heap) = LiveBlocks(heap)

\* a = a has just returned on a vector with elements and spare capacity
C15_Witness ==
    /\ ret.op = "CopyAssign"
    /\ ret.vec = "a"
    /\ vec["a"].size_ >= 2
    /\ vec["a"].size_ < vec["a"].capacity_
    /\ Live("a")[1] # Live("a")[2]

\* ---- C16 ----

\* the blocks the objects hold
Owned == {vec[x].data_ : x \in Vecs} \ {Null}

\* C16: in every reachable state of a program that constructs, grows, copies,
\* moves, swaps and destroys two vectors, a non-null data_ belongs to a
\* constructed object and points to an allocated block (nothing is used or
\* freed after it was freed), no two objects hold the same block (nothing can
\* be freed twice), every allocated block is held by an object (nothing
\* leaks), and with every object destroyed no block is allocated.
C16_BlocksOwnedOnce ==
    /\ \A x \in Vecs :
           vec[x].data_ # Null => vec[x].alive /\ heap[vec[x].data_].live
    /\ \A x \in Vecs : vec[x].data_ # Null => vec[x].data_ # vec[Other(x)].data_
    /\ LiveBlocks(heap) = Owned
    /\ (\A x \in Vecs : ~vec[x].alive) => LiveBlocks(heap) = {}

\* a copy assignment has just returned, and the blocks allocated are the two
\* blocks, of different sizes, that the two objects hold
C16_Witness ==
    /\ ret.op = "CopyAssign"
    /\ Cardinality(LiveBlocks(heap)) = 2
    /\ \A x \in Vecs : vec[x].data_ # Null
    /\ vec["a"].capacity_ > vec["b"].capacity_

\* both objects have been destroyed
C16_WitnessDestroyed == \A x \in Vecs : ~vec[x].alive

\* ---- C17 ----

\* o ended in bad_alloc with the objects and the heap, and so the allocated
\* blocks, as they are now
C17_Failed(o) ==
    /\ o.ret.status = "BadAlloc"
    /\ o.vec = vec
    /\ o.heap = heap
    /\ LiveBlocks(o.heap) = Owned

\* C17: when new Type[n] throws in a copy assignment, Reserve, Resize,
\* PushBack or Insert that has to allocate, the call ends in bad_alloc and
\* leaves every object, every block and the set of allocated blocks as they
\* were: the target keeps its size_, capacity_, data_ and elements and
\* nothing leaks.
C17_AllocationFailureKeepsState ==
    \A x \in Vecs :
        Callable(x) =>
            /\ (vec[Other(x)].alive /\ vec[Other(x)].size_ > 0) =>
                   C17_Failed(CopyAssignFn(vec, heap, x, Other(x), BadAlloc))
            /\ \A n \in 0..(MaxCap + 1) :
                   n > vec[x].capacity_ =>
                       /\ C17_Failed(ReserveFn(vec, heap, x, n, BadAlloc))
                       /\ C17_Failed(ResizeFn(vec, heap, x, n, BadAlloc))
            /\ Full(x) =>
                   \A v \in Values :
                       /\ C17_Failed(PushBackCopyFn(vec, heap, x, v, BadAlloc))
                       /\ \A junk \in PastEnd(x) :
                              C17_Failed(PushBackMoveFn(vec, heap, x, v, BadAlloc, junk))
                       /\ \A p \in 0..vec[x].size_ :
                              /\ C17_Failed(InsertCopyFn(vec, heap, x, p, v, BadAlloc))
                              /\ C17_Failed(InsertMoveFn(vec, heap, x, p, v, BadAlloc))

\* a copy assignment that would have replaced a block of two slots by a copy
\* of one element has just ended in bad_alloc
C17_Witness ==
    /\ ret.op = "CopyAssign"
    /\ ret.status = "BadAlloc"
    /\ vec[ret.vec].capacity_ = 2
    /\ vec[ret.vec].size_ >= 1
    /\ vec[Other(ret.vec)].size_ = 1
    /\ Live(ret.vec)[1] # Live(Other(ret.vec))[1]

\* ---- C18 ----

\* sequence e is lexicographically less than sequence f: they agree on the
\* first k elements, and then e ends and f does not, or e has the smaller element
LexLess(e, f) ==
    \E k \in 0..Len(e) :
        /\ k <= Len(f)
        /\ \A i \in 1..k : e[i] = f[i]
        /\ \/ k = Len(e) /\ k < Len(f)
           \/ k < Len(e) /\ k < Len(f) /\ e[k + 1] < f[k + 1]

\* C18: for every two vectors, and for a vector and itself, operator== holds
\* exactly when the live sequences are equal (same size, same element at every
\* index) and operator< exactly when the first is lexicographically less than
\* the second; != is the negation of ==, > is < with the sides exchanged, <= is
\* (< or ==) and >= is (> or ==).  Each result is thus a function of the live
\* sequences alone: the slots from size_ on and capacity_ have no part in it.
C18_ComparisonsByLiveElements ==
    \A x \in Vecs : \A y \in Vecs :
        (vec[x].alive /\ vec[y].alive) =>
            LET eq == OperatorEqual(vec, heap, x, y)
                lt == OperatorLess(vec, heap, x, y)
                gt == OperatorGreater(vec, heap, x, y)
            IN /\ eq <=> (/\ vec[x].size_ = vec[y].size_
                          /\ \A i \in 1..vec[x].size_ : Live(x)[i] = Live(y)[i])
               /\ eq <=> Live(x) = Live(y)
               /\ lt <=> LexLess(Live(x), Live(y))
               /\ OperatorNotEqual(vec, heap, x, y) <=> ~eq
               /\ gt <=> OperatorLess(vec, heap, y, x)
               /\ OperatorLessEq(vec, heap, x, y) <=> (lt \/ eq)
               /\ OperatorGreaterEq(vec, heap, x, y) <=> (gt \/ eq)

\* operator< has just found a vector less than one it is a strict prefix of,
\* although the slot after its last element holds more than the other's next element
C18_Witness ==
    /\ ret.op = "Less"
    /\ ret.status = "true"
    /\ vec[ret.vec].size_ >= 1
    /\ vec[ret.vec].size_ < vec[ret.vec].capacity_
    /\ vec[ret.vec].size_ < vec[Other(ret.vec)].size_
    /\ \A i \in 1..vec[ret.vec].size_ : Live(ret.vec)[i] = Live(Other(ret.vec))[i]
    /\ SlotOf(vec, heap, ret.vec, vec[ret.vec].size_)
           > SlotOf(vec, heap, Other(ret.vec), vec[ret.vec].size_)

\* operator== has just found two vectors of different capacities equal
C18_WitnessEqual ==
    /\ ret.op = "Equal"
    /\ ret.status = "true"
    /\ vec["a"].size_ >= 1
    /\ vec["a"].capacity_ # vec["b"].capacity_

\* ---- C19 ----

\* every access is to a slot of the block accessed
InBounds(T) == \A t \in T : 0 <= t[1] /\ t[1] < t[2]

\* Insert, Resize, Reserve, Erase, PopBack, operator[], At and the copying
\* PushBack: every slot accessed is inside the block accessed
C19_OthersInBounds ==
    \A x \in Vecs :
        Callable(x) =>
            /\ InBounds(PushBackCopyTouches(vec, x))
            /\ \A p \in 0..vec[x].size_ : InBounds(InsertTouches(vec, x, p))
            /\ \A n \in 0..(MaxCap + 1) :
                   /\ InBounds(ResizeTouches(vec, x, n))
                   /\ InBounds(ReserveTouches(vec, x, n))
            /\ \A p \in 0..(vec[x].size_ - 1) :
                   /\ InBounds(EraseTouches(vec, x, p))
                   /\ InBounds(IndexTouches(vec, x, p))
            /\ vec[x].size_ > 0 => InBounds(PopBackTouches(vec, x))
            /\ \A i \in 0..(MaxCap + 1) : InBounds(IndexTouches(vec, x, i))

\* C19 as claimed: from every reachable state, every call made within its
\* preconditions reads and writes only slots inside the block it accesses:
\* the growth of PushBack, Insert, Resize and Reserve reads the old block
\* below the old capacity and writes the new block below the new capacity, and
\* the shifts of Insert and Erase stay below capacity_.
C19_NoAccessOutOfBounds ==
    /\ C19_OthersInBounds
    /\ \A x \in Vecs : Callable(x) => InBounds(PushBackMoveTouches(vec, x))

\* ---- C20 ----

\* the elements in the slots [first, capacity_) of x in the outcome o
SlotsFrom(o, x, first) ==
    [i \in first..(o.vec[x].capacity_ - 1) |-> SlotOf(o.vec, o.heap, x, i)]

\* Insert(end(), v) and PushBack(v) on x, given the same allocation
C20_Insert(x, v, g) == InsertMoveFn(vec, heap, x, vec[x].size_, v, g)
C20_PushBack(x, v, g, junk) == PushBackMoveFn(vec, heap, x, v, g, junk)

\* same size, same capacity, same live elements
C20_SameVector(x, i, p) ==
    /\ i.vec[x].size_ = p.vec[x].size_
    /\ i.vec[x].capacity_ = p.vec[x].capacity_
    /\ After(i, x) = After(p, x)
    /\ After(i, x) = Append(Live(x), SlotOf(i.vec, i.heap, x, vec[x].size_))

C20_WitnessInPlace ==
    /\ ret.op = "InsertMove"
    /\ ~ret.grew
    /\ ret.off = vec["a"].size_ - 1
    /\ vec["a"].size_ > 1
    /\ vec["a"].size_ < vec["a"].capacity_

====
